---- MODULE Spec2Model ----
(***************************************************************************)
(* Model of github_graphql_mcp_server.py: the tool github_execute_graphql  *)
(* and its helper make_github_request.                                     *)
(*                                                                         *)
(* An invocation is a coroutine with one suspension point, the             *)
(* `await client.post(...)` of make_github_request.  Everything before the *)
(* await is one step (Call), everything after it is one step (one of the   *)
(* Post... actions, chosen by what the remote end does).  Logging calls    *)
(* write to stderr only and are not part of the state.                     *)
(*                                                                         *)
(* Python values are tagged records, Python str is a TLA+ string, f-string *)
(* formatting is string concatenation.                                     *)
(***************************************************************************)
EXTENDS Integers, Sequences, FiniteSets, TLC

VARIABLES
    GITHUB_TOKEN,   \* module global, read from the environment at import
    pc,             \* per invocation: "idle", "awaiting", "returned", "raised"
    query,          \* per invocation: the query argument
    variables,      \* per invocation: the variables argument
    payload,        \* per invocation: the json= argument of client.post
    posts,          \* per invocation: number of client.post calls issued
    response,       \* per invocation: what the await of client.post produced
    result,         \* per invocation: the string returned to the caller
    fault           \* per invocation: the exception that left the tool

vars == <<GITHUB_TOKEN, pc, query, variables, payload, posts, response, result, fault>>

\* Number of invocations the host may have in flight at once.
NumInvocations == 2

Invocations == 1..NumInvocations

-----------------------------------------------------------------------------
(* Python values *)

None == [type |-> "NoneType"]
Str(s) == [type |-> "str", str |-> s]
PyInt(n) == [type |-> "int", int |-> n]
Bool(b) == [type |-> "bool", bool |-> b]
List(items) == [type |-> "list", items |-> items]
Dict(members) == [type |-> "dict", members |-> members]

EmptyDict == Dict(<<>>)

\* Python truth value testing, as used by `if not x` and `if x`.
Truthy(v) ==
    CASE v.type = "NoneType" -> FALSE
      [] v.type = "str" -> v.str # ""
      [] v.type = "int" -> v.int # 0
      [] v.type = "bool" -> v.bool
      [] v.type = "list" -> Len(v.items) > 0
      [] v.type = "dict" -> DOMAIN v.members # {}

\* The outcome of evaluating an expression: a value or a raised exception.
Ok(v) == [ok |-> TRUE, val |-> v]
Raise(exc, msg) == [ok |-> FALSE, exc |-> exc, msg |-> msg]

\* The strings of the model that contain `key` as a substring.
IsSubstring(key, s) ==
    CASE key = "errors" -> s \in {"errors", "no errors"}
      [] key = "message" -> s \in {"message"}
      [] OTHER -> s = key

\* The first character of the strings of the model.
FirstChar(s) ==
    CASE s = "boom" -> "b"
      [] s = "errors" -> "e"
      [] s = "no errors" -> "n"
      [] s = "message" -> "m"
      [] OTHER -> s

\* Python `key in v` for a str key.
In(key, v) ==
    CASE v.type = "dict" -> Ok(key \in DOMAIN v.members)
      [] v.type = "list" -> Ok(\E k \in 1..Len(v.items) : v.items[k] = Str(key))
      [] v.type = "str" -> Ok(IsSubstring(key, v.str))
      [] OTHER -> Raise("TypeError", "argument of type '" \o v.type \o "' is not iterable")

\* Python `v[key]` for a str key.
GetItemKey(v, key) ==
    CASE v.type = "dict" ->
            IF key \in DOMAIN v.members THEN Ok(v.members[key])
            ELSE Raise("KeyError", "'" \o key \o "'")
      [] v.type = "list" -> Raise("TypeError", "list indices must be integers or slices, not str")
      [] v.type = "str" -> Raise("TypeError", "string indices must be integers, not 'str'")
      [] OTHER -> Raise("TypeError", "'" \o v.type \o "' object is not subscriptable")

\* Python `v[0]`.  The keys of a decoded JSON object are strings, never 0.
GetItem0(v) ==
    CASE v.type = "list" ->
            IF Len(v.items) > 0 THEN Ok(v.items[1])
            ELSE Raise("IndexError", "list index out of range")
      [] v.type = "str" ->
            IF v.str # "" THEN Ok(Str(FirstChar(v.str)))
            ELSE Raise("IndexError", "string index out of range")
      [] v.type = "dict" -> Raise("KeyError", "0")
      [] OTHER -> Raise("TypeError", "'" \o v.type \o "' object is not subscriptable")

\* The text an f-string puts in place of {v}.
Format(v) ==
    CASE v.type = "str" -> v.str
      [] v.type = "int" -> ToString(v.int)
      [] v.type = "NoneType" -> "None"
      [] v.type = "bool" -> IF v.bool THEN "True" ELSE "False"
      [] OTHER -> "<" \o v.type \o ">"

\* int(s) for the header values of the model.
ParseInt(s) ==
    CASE s = "5000" -> Ok(5000)
      [] s = "4999" -> Ok(4999)
      [] s = "49" -> Ok(49)
      [] s = "0" -> Ok(0)
      [] OTHER -> Raise("ValueError", "invalid literal for int() with base 10: '" \o s \o "'")

-----------------------------------------------------------------------------
(* JSON text.  A text is either well formed, and then it denotes a value,  *)
(* or it is not.                                                           *)

Text(v) == [wellformed |-> TRUE, value |-> v]
Garbage(s) == [wellformed |-> FALSE, raw |-> s]

\* json.dumps
Dumps(v) == Text(v)

\* json.loads, response.json()
Loads(t) ==
    IF t.wellformed THEN Ok(t.value)
    ELSE Raise("JSONDecodeError", "Expecting value: line 1 column 1 (char 0)")

-----------------------------------------------------------------------------
(* make_github_request *)

\* X-RateLimit-Remaining below this is logged as a warning.
RateLimitLow == 50

\* {"errors": [{"message": msg}]}
ErrorResult(msg) == Dict("errors" :> List(<<Dict("message" :> Str(msg))>>))

\* A request error reported under the message of the generic handler.
RequestErrorAsUnexpected(e) == ErrorResult("An unexpected error occurred: " \o e)

RequestErrorResult(e) == ErrorResult("HTTP Request Error connecting to GitHub" \o ": " \o e)
UnexpectedResult(e) == ErrorResult("An unexpected error occurred: " \o e)
EmptyQueryResult == ErrorResult("Query cannot be empty.")
MissingTokenResult == ErrorResult("Server missing GitHub API token.")

\* A check that tests only for None.
QueryIsNone(q) == q = None

\* `if not query`
QueryEmpty(q) == ~Truthy(q)

\* A check that tests only for None.
TokenIsNone == GITHUB_TOKEN = None

\* `if not GITHUB_TOKEN`
TokenMissing == ~Truthy(GITHUB_TOKEN)

\* A payload that always carries a variables entry.
BuildPayloadAlways(q, v) == Dict(("query" :> q) @@ ("variables" :> v))

\* payload = {"query": query}; if variables: payload["variables"] = variables
BuildPayload(q, v) ==
    IF Truthy(v) THEN Dict(("query" :> q) @@ ("variables" :> v))
    ELSE Dict("query" :> q)

\* The rate-limit block: the level of the last line it logs, or the
\* exception int() raises.
RateLimitLog(headers) ==
    IF "X-RateLimit-Limit" \in DOMAIN headers /\ "X-RateLimit-Remaining" \in DOMAIN headers
    THEN LET n == ParseInt(headers["X-RateLimit-Remaining"])
         IN  IF ~n.ok THEN n
             ELSE IF n.val < RateLimitLow THEN Ok(Str("warning")) ELSE Ok(Str("info"))
    ELSE Ok(None)

\* response.raise_for_status() returns normally
IsSuccess(status_code) == 200 <= status_code /\ status_code < 300

\* The `except httpx.HTTPStatusError` handler.  Only json.JSONDecodeError is
\* caught inside it; any other exception raised here leaves the function,
\* since the sibling `except Exception` clause does not cover a handler.
StatusErrorHandler(r) ==
    LET error_detail == "HTTP Status Error: " \o ToString(r.status_code)
        err_resp == Loads(r.body)
    IN  IF ~err_resp.ok THEN Ok(ErrorResult(error_detail))
        ELSE LET hasErrors == In("errors", err_resp.val)
                 hasMessage == In("message", err_resp.val)
                 errors == GetItemKey(err_resp.val, "errors")
                 first == GetItem0(errors.val)
                 firstMessage == GetItemKey(first.val, "message")
                 message == GetItemKey(err_resp.val, "message")
             IN  IF ~hasErrors.ok THEN hasErrors
                 ELSE IF hasErrors.val
                 THEN IF ~errors.ok THEN errors
                      ELSE IF ~first.ok THEN first
                      ELSE IF ~firstMessage.ok THEN firstMessage
                      ELSE Ok(ErrorResult(error_detail \o " - " \o Format(firstMessage.val)))
                 ELSE IF ~hasMessage.ok THEN hasMessage
                 ELSE IF hasMessage.val
                 THEN IF ~message.ok THEN message
                      ELSE Ok(ErrorResult(error_detail \o " - " \o Format(message.val)))
                 ELSE Ok(ErrorResult(error_detail))

\* The body of the try block after the await, with its except clauses:
\* the dict make_github_request returns, or the exception that leaves it.
HandleResponse(r) ==
    LET rate == RateLimitLog(r.headers)
        decoded == Loads(r.body)
        hasErrors == In("errors", decoded.val)
    IN  IF ~rate.ok THEN Ok(UnexpectedResult(rate.msg))
        ELSE IF ~IsSuccess(r.status_code) THEN StatusErrorHandler(r)
        ELSE IF ~decoded.ok THEN Ok(UnexpectedResult(decoded.msg))
        ELSE IF ~hasErrors.ok THEN Ok(UnexpectedResult(hasErrors.msg))
        ELSE Ok(decoded.val)

-----------------------------------------------------------------------------
(* What the remote end can do at the await *)

Response(status_code, headers, body) ==
    [type |-> "Response", status_code |-> status_code, headers |-> headers, body |-> body]
RequestError(msg) == [type |-> "RequestError", msg |-> msg]
OtherException(msg) == [type |-> "Exception", msg |-> msg]

-----------------------------------------------------------------------------
(* Inputs *)

Queries == {None, Str(""), Str("query { viewer { login } }")}

VariablesArgs == {None, EmptyDict, Dict("owner" :> Str("octocat"))}

Tokens == {None, Str(""), Str("ghp_example")}

StatusCodes == {200, 201, 403, 500}

HeaderNames == {"X-RateLimit-Limit", "X-RateLimit-Remaining", "X-RateLimit-Reset"}

HeaderValues(name) ==
    CASE name = "X-RateLimit-Limit" -> {"5000"}
      [] name = "X-RateLimit-Remaining" -> {"4999", "49", "abc"}
      [] name = "X-RateLimit-Reset" -> {"1700000000"}

AllHeaderValues == UNION {HeaderValues(n) : n \in HeaderNames}

Headers ==
    {h \in UNION {[S -> AllHeaderValues] : S \in SUBSET HeaderNames} :
        \A n \in DOMAIN h : h[n] \in HeaderValues(n)}

Message(m) == Dict("message" :> Str(m))

JsonValues ==
    { Dict("data" :> Dict("repository" :> Dict("name" :> Str("Hello-World")))),
      Dict(("data" :> None) @@ ("errors" :> List(<<Message("Field 'x' doesn't exist")>>))),
      Dict("message" :> Str("Bad credentials")),
      Dict(("errors" :> List(<<Message("rate limited")>>)) @@ ("message" :> Str("outer"))),
      Dict("errors" :> List(<<>>)),
      Dict("errors" :> List(<<Dict("type" :> Str("FORBIDDEN"))>>)),
      Dict("errors" :> Str("boom")),
      EmptyDict,
      List(<<>>),
      List(<<Str("message")>>),
      Str("errors"),
      PyInt(5),
      None }

Bodies == {Text(v) : v \in JsonValues} \cup {Garbage("<html>Bad Gateway</html>"), Garbage("")}

Responses == {Response(s, h, b) : s \in StatusCodes, h \in Headers, b \in Bodies}

\* str(e) of the httpx.RequestError subclasses: connection, DNS, timeout
RequestErrors == {"All connection attempts failed",
                  "[Errno -2] Name or service not known",
                  ""}

OtherExceptions == {"Object of type set is not JSON serializable"}

-----------------------------------------------------------------------------
(* The tool *)

Init ==
    /\ GITHUB_TOKEN \in Tokens
    /\ pc = [i \in Invocations |-> "idle"]
    /\ query = [i \in Invocations |-> None]
    /\ variables = [i \in Invocations |-> None]
    /\ payload = [i \in Invocations |-> None]
    /\ posts = [i \in Invocations |-> 0]
    /\ response = [i \in Invocations |-> None]
    /\ result = [i \in Invocations |-> None]
    /\ fault = [i \in Invocations |-> None]

\* github_execute_graphql(q, v) up to the await of client.post, or to its
\* return when it returns before that.
Call(i, q, v) ==
    /\ pc[i] = "idle"
    /\ query' = [query EXCEPT ![i] = q]
    /\ variables' = [variables EXCEPT ![i] = v]
    /\ IF QueryEmpty(q)
       THEN /\ result' = [result EXCEPT ![i] = Dumps(EmptyQueryResult)]
            /\ pc' = [pc EXCEPT ![i] = "returned"]
            /\ UNCHANGED <<payload, posts>>
       ELSE IF TokenMissing
       THEN /\ result' = [result EXCEPT ![i] = Dumps(MissingTokenResult)]
            /\ pc' = [pc EXCEPT ![i] = "returned"]
            /\ UNCHANGED <<payload, posts>>
       ELSE /\ payload' = [payload EXCEPT ![i] = BuildPayload(q, v)]
            /\ posts' = [posts EXCEPT ![i] = @ + 1]
            /\ pc' = [pc EXCEPT ![i] = "awaiting"]
            /\ UNCHANGED result
    /\ UNCHANGED <<GITHUB_TOKEN, response, fault>>

\* A completion that hands the outcome to every invocation still awaiting,
\* as a result kept in a module global would.
FinishShared(i, r, outcome) ==
    /\ response' = [response EXCEPT ![i] = r]
    /\ IF outcome.ok
       THEN /\ result' = [j \in Invocations |->
                            IF pc[j] = "awaiting" THEN Dumps(outcome.val) ELSE result[j]]
            /\ pc' = [j \in Invocations |->
                            IF pc[j] = "awaiting" THEN "returned" ELSE pc[j]]
            /\ UNCHANGED fault
       ELSE /\ fault' = [fault EXCEPT ![i] = [exc |-> outcome.exc, msg |-> outcome.msg]]
            /\ pc' = [pc EXCEPT ![i] = "raised"]
            /\ UNCHANGED result
    /\ UNCHANGED <<GITHUB_TOKEN, query, variables, payload, posts>>

\* make_github_request has produced `outcome`; github_execute_graphql
\* serialises a returned dict, and lets an exception through.
Finish(i, r, outcome) ==
    /\ response' = [response EXCEPT ![i] = r]
    /\ IF outcome.ok
       THEN /\ result' = [result EXCEPT ![i] = Dumps(outcome.val)]
            /\ pc' = [pc EXCEPT ![i] = "returned"]
            /\ UNCHANGED fault
       ELSE /\ fault' = [fault EXCEPT ![i] = [exc |-> outcome.exc, msg |-> outcome.msg]]
            /\ pc' = [pc EXCEPT ![i] = "raised"]
            /\ UNCHANGED result
    /\ UNCHANGED <<GITHUB_TOKEN, query, variables, payload, posts>>

\* client.post raises httpx.RequestError
PostRequestError(i, e) ==
    /\ pc[i] = "awaiting"
    /\ Finish(i, RequestError(e), Ok(RequestErrorResult(e)))

\* client.post raises some other Exception
PostException(i, e) ==
    /\ pc[i] = "awaiting"
    /\ Finish(i, OtherException(e), Ok(UnexpectedResult(e)))

\* client.post returns a response
PostResponse(i, r) ==
    /\ pc[i] = "awaiting"
    /\ Finish(i, r, HandleResponse(r))

\* One invocation, every input and every remote outcome of the model.
Next ==
    \/ \E q \in Queries, v \in VariablesArgs : Call(1, q, v)
    \/ \E e \in RequestErrors : PostRequestError(1, e)
    \/ \E e \in OtherExceptions : PostException(1, e)
    \/ \E r \in Responses : PostResponse(1, r)

Spec == Init /\ [][Next]_vars

-----------------------------------------------------------------------------
(* Concurrent invocations: the host has up to NumInvocations calls in      *)
(* flight, each suspended at its own await, resumed in any order.          *)

ConcQueries == {Str(""), Str("query { viewer { login } }")}

ConcVariablesArgs == {None, Dict("owner" :> Str("octocat"))}

ConcHeaders == {<<>>,
                ("X-RateLimit-Limit" :> "5000") @@ ("X-RateLimit-Remaining" :> "49"),
                ("X-RateLimit-Limit" :> "5000") @@ ("X-RateLimit-Remaining" :> "abc")}

ConcBodies == {Text(Dict("data" :> Dict("repository" :> Dict("name" :> Str("Hello-World"))))),
               Text(Dict("message" :> Str("Bad credentials"))),
               Text(Dict("errors" :> List(<<>>))),
               Garbage("<html>Bad Gateway</html>")}

ConcResponses == {Response(s, h, b) : s \in {200, 403}, h \in ConcHeaders, b \in ConcBodies}

NextConc ==
    \/ \E i \in Invocations : \E q \in ConcQueries, v \in ConcVariablesArgs : Call(i, q, v)
    \/ \E i \in Invocations : \E e \in {""} : PostRequestError(i, e)
    \/ \E i \in Invocations : \E e \in OtherExceptions : PostException(i, e)
    \/ \E i \in Invocations : \E r \in ConcResponses : PostResponse(i, r)

SpecConc == Init /\ [][NextConc]_vars

-----------------------------------------------------------------------------
(* Properties *)

\* C1: an invocation never lets a fault propagate to its caller; whenever it
\* has completed it has returned a string that parses as JSON.
NeverPropagates ==
    \A i \in Invocations :
        /\ pc[i] # "raised"
        /\ pc[i] = "returned" => result[i] # None /\ result[i].wellformed

\* C2: an invocation with an empty or absent query returns exactly
\* {"errors":[{"message":"Query cannot be empty."}]} and issues no POST,
\* whatever the variables and the credential.
EmptyQueryShortCircuits ==
    \A i \in Invocations :
        pc[i] # "idle" /\ query[i] \in {None, Str("")} =>
            /\ pc[i] = "returned"
            /\ result[i] = Text(Dict("errors" :>
                    List(<<Dict("message" :> Str("Query cannot be empty."))>>)))
            /\ posts[i] = 0
            /\ payload[i] = None
            /\ response[i] = None

EmptyQueryWitness ==
    \E i \in Invocations :
        /\ pc[i] = "returned"
        /\ query[i] = Str("")
        /\ variables[i] = Dict("owner" :> Str("octocat"))
        /\ GITHUB_TOKEN = Str("ghp_example")

\* C3: with no credential configured, an invocation with a non-empty query
\* returns exactly {"errors":[{"message":"Server missing GitHub API token."}]}
\* and issues no POST.
MissingTokenShortCircuits ==
    \A i \in Invocations :
        pc[i] # "idle" /\ GITHUB_TOKEN \in {None, Str("")} /\ query[i] \notin {None, Str("")} =>
            /\ pc[i] = "returned"
            /\ result[i] = Text(Dict("errors" :>
                    List(<<Dict("message" :> Str("Server missing GitHub API token."))>>)))
            /\ posts[i] = 0
            /\ payload[i] = None
            /\ response[i] = None

MissingTokenWitness ==
    \E i \in Invocations :
        /\ pc[i] = "returned"
        /\ GITHUB_TOKEN = Str("")
        /\ query[i] = Str("query { viewer { login } }")

\* C4: when client.post fails at the network level (connection, DNS,
\* timeout), the invocation returns a Result with no data and exactly one
\* error, whose message starts with "HTTP Request Error connecting to GitHub".
RequestErrorReported ==
    \A i \in Invocations :
        response[i].type = "RequestError" =>
            /\ pc[i] = "returned"
            /\ result[i].wellformed
            /\ LET v == result[i].value
               IN  /\ v.type = "dict"
                   /\ DOMAIN v.members = {"errors"}
                   /\ v.members["errors"].type = "list"
                   /\ Len(v.members["errors"].items) = 1
                   /\ LET err == v.members["errors"].items[1]
                      IN  /\ err.type = "dict"
                          /\ DOMAIN err.members = {"message"}
                          /\ \E rest \in {": " \o d : d \in RequestErrors} :
                                err.members["message"] =
                                    Str("HTTP Request Error connecting to GitHub" \o rest)

RequestErrorWitness ==
    \E i \in Invocations :
        /\ pc[i] = "returned"
        /\ response[i] = RequestError("")
        /\ posts[i] = 1

\* C5: for every non-2xx response the invocation returns exactly one error
\* whose message is "HTTP Status Error: <status>", followed by " - " and the
\* first message of the body's errors array if the body is JSON with an
\* errors array, else by " - " and the body's top-level message if it has
\* one, else by nothing.
StatusErrorComposed ==
    \A i \in Invocations :
        response[i].type = "Response" /\ ~(response[i].status_code \in 200..299) =>
            LET b == response[i].body
                isObject == b.wellformed /\ b.value.type = "dict"
                errs == b.value.members["errors"]
                hasFirstMessage ==
                    /\ isObject
                    /\ "errors" \in DOMAIN b.value.members
                    /\ errs.type = "list"
                    /\ Len(errs.items) > 0
                    /\ errs.items[1].type = "dict"
                    /\ "message" \in DOMAIN errs.items[1].members
                hasMessage ==
                    /\ isObject
                    /\ "errors" \notin DOMAIN b.value.members
                    /\ "message" \in DOMAIN b.value.members
                suffix ==
                    IF hasFirstMessage THEN " - " \o errs.items[1].members["message"].str
                    ELSE IF hasMessage THEN " - " \o b.value.members["message"].str
                    ELSE ""
            IN  /\ pc[i] = "returned"
                /\ result[i] = Text(Dict("errors" :> List(<<Dict("message" :>
                        Str("HTTP Status Error: " \o ToString(response[i].status_code) \o suffix))>>)))

\* C6: for every 2xx response whose body is JSON, the returned string
\* decodes to exactly the JSON value of the body, an errors array in it
\* included.
SuccessVerbatim ==
    \A i \in Invocations :
        /\ response[i].type = "Response"
        /\ response[i].status_code \in 200..299
        /\ response[i].body.wellformed
        => /\ pc[i] = "returned"
           /\ result[i].wellformed
           /\ result[i].value = response[i].body.value

\* C7 as stated: the request body carries the caller's query, and carries a
\* variables entry exactly when the caller supplied variables, unchanged.
VariablesSentIffSupplied ==
    \A i \in Invocations :
        posts[i] > 0 =>
            /\ payload[i].type = "dict"
            /\ payload[i].members["query"] = query[i]
            /\ "variables" \in DOMAIN payload[i].members <=> variables[i] # None
            /\ variables[i] # None => payload[i].members["variables"] = variables[i]

\* C7 as amended: the request body carries the caller's query, and carries a
\* variables entry exactly when the caller supplied a non-empty variables
\* mapping, which is sent unchanged; the entry is omitted when variables is
\* not supplied or is an empty mapping.
VariablesSentIffNonEmpty ==
    \A i \in Invocations :
        posts[i] > 0 =>
            /\ payload[i].type = "dict"
            /\ DOMAIN payload[i].members \subseteq {"query", "variables"}
            /\ payload[i].members["query"] = query[i]
            /\ "variables" \in DOMAIN payload[i].members <=>
                    variables[i] \notin {None, Dict(<<>>)}
            /\ "variables" \in DOMAIN payload[i].members =>
                    payload[i].members["variables"] = variables[i]

VariablesSentWitness ==
    \E i \in Invocations :
        /\ posts[i] = 1
        /\ variables[i] = Dict("owner" :> Str("octocat"))
        /\ payload[i].members["variables"] = Dict("owner" :> Str("octocat"))

\* C8: the rate-limit headers have no effect on what the invocation
\* returns: with any other rate-limit headers on the same status and body,
\* the outcome would have been the one observed.
RateLimitHeadersIgnored ==
    \A i \in Invocations :
        response[i].type = "Response" =>
            \A h \in Headers :
                LET other == HandleResponse([response[i] EXCEPT !.headers = h])
                IN  IF pc[i] = "returned"
                    THEN other.ok /\ result[i] = Dumps(other.val)
                    ELSE ~other.ok /\ fault[i] = [exc |-> other.exc, msg |-> other.msg]

\* C9: nothing is retried: an invocation issues at most one POST, and once
\* it is past the await it has completed with its Result.
SingleAttemptThenResult ==
    \A i \in Invocations :
        /\ posts[i] <= 1
        /\ response[i] # None =>
                /\ posts[i] = 1
                /\ pc[i] = "returned"
                /\ result[i] # None

\* C10: concurrent invocations are independent: two completed invocations
\* with the same query, variables and remote outcome have completed the same
\* way, whatever the interleaving; a step of one invocation changes nothing
\* of another; and the credential never changes.
IndependentInvocations ==
    /\ [](\A i, j \in Invocations :
            /\ pc[i] \in {"returned", "raised"}
            /\ pc[j] \in {"returned", "raised"}
            /\ query[i] = query[j]
            /\ variables[i] = variables[j]
            /\ response[i] = response[j]
            => /\ pc[i] = pc[j]
               /\ result[i] = result[j]
               /\ fault[i] = fault[j])
    /\ [][/\ GITHUB_TOKEN' = GITHUB_TOKEN
          /\ \A i, j \in Invocations :
                i # j /\ pc'[i] # pc[i] =>
                    /\ pc'[j] = pc[j]
                    /\ query'[j] = query[j]
                    /\ variables'[j] = variables[j]
                    /\ payload'[j] = payload[j]
                    /\ posts'[j] = posts[j]
                    /\ response'[j] = response[j]
                    /\ result'[j] = result[j]
                    /\ fault'[j] = fault[j]]_vars

IndependentWitness ==
    \E i, j \in Invocations :
        /\ i # j
        /\ pc[i] = "returned"
        /\ response[i].type = "Response"
        /\ pc[j] = "awaiting"
        /\ query[j] = query[i]
        /\ variables[j] # variables[i]

====
